---- MODULE Spec2Model ----
(***************************************************************************)
(* Model of helm-resources-checker.py: the release-record resolver         *)
(* (find_release_secret), the payload decoder (decode_release_payload),    *)
(* the manifest extractor (manifest_objects), the live check               *)
(* (object_exists) and the report loop of main().                          *)
(*                                                                         *)
(* Text is modelled as a tuple of one-character strings wherever the code  *)
(* inspects characters (secret names, label values).  Python values that   *)
(* the code tests by type or by key are tagged tuples: <<"None">>,         *)
(* <<"str", s>>, <<"dict", d>>, <<"other">>; a dict d is a set of          *)
(* <<key, value>> pairs with distinct keys.  A call's outcome is           *)
(* <<"return", v>> or <<"raise", exceptionClass>>.                         *)
(***************************************************************************)
EXTENDS Integers, Sequences, FiniteSets, TLC

VARIABLES
    pc,            \* position of main() (or of the function under test)
    revision,      \* args.revision: <<"None">> or <<"int", n>>
    candidates,    \* find_release_secret: the items the store returned
    secret,        \* main: the secret find_release_secret returned
    encoded,       \* decode_release_payload: its argument
    raw,           \* decode_release_payload: raw
    raw2,          \* decode_release_payload: raw2
    release,       \* main: the decoded release
    todo,          \* main: the sorted identities not yet checked
    reply,         \* the store's or cluster's answers to the call just made
    lives,         \* the value each object_exists call returned, in order
    exists_any,    \* main: exists_any
    out,           \* what main printed, in order
    err,           \* the exception or exit that ended the run
    arg,           \* argument of a function applied on its own
    ret            \* its result

vars == <<pc, revision, candidates, secret, encoded, raw, raw2, release, todo,
          reply, lives, exists_any, out, err, arg, ret>>

-----------------------------------------------------------------------------
(* Bounds of the model *)

MaxNameLen == 5      \* characters of a secret's name
MaxLabelLen == 2     \* characters of a version label
MaxCandidates == 3   \* secrets the store returns for one release
MaxWrap == 3         \* encodings around a payload, below the API's base64
MaxStoredWrap == 2   \* the same, for the secrets of the store main() queries
MaxDeclared == 3     \* documents of a stored release's manifest
MaxDocs == 3         \* documents of a manifest handed to manifest_objects

-----------------------------------------------------------------------------
(* Python values and call outcomes *)

None == <<"None">>
Str(s) == <<"str", s>>
Dict(d) == <<"dict", d>>
Obj(x) == <<"obj", x>>
PyInt(n) == <<"int", n>>
Yaml(docs) == <<"yaml", docs>>    \* a str holding a manifest
Unset == <<"unset">>              \* a variable not assigned yet
Return(v) == <<"return", v>>
Raise(e) == <<"raise", e>>
Raised(o) == o[1] = "raise"

\* dict.get(key, default)
Get(d, key, default) ==
    IF \E p \in d : p[1] = key
    THEN (CHOOSE p \in d : p[1] = key)[2]
    ELSE default

RECURSIVE SeqsUpTo(_, _)
SeqsUpTo(S, n) ==
    IF n = 0 THEN {<<>>}
    ELSE LET shorter == SeqsUpTo(S, n - 1)
         IN  shorter \cup {Append(s, x) : s \in {t \in shorter : Len(t) = n - 1}, x \in S}

-----------------------------------------------------------------------------
(* find_release_secret.secret_version, lines 57-64 *)

Digits == <<"0", "1", "2", "3", "4", "5", "6", "7", "8", "9">>

IsDigitChar(c) == \E i \in 1..10 : Digits[i] = c

DigitValue(c) == (CHOOSE i \in 1..10 : Digits[i] = c) - 1

\* str.isdigit(): non-empty and every character a digit
isdigit(s) == Len(s) > 0 /\ \A i \in 1..Len(s) : IsDigitChar(s[i])

\* int(s) succeeds: an optional sign, then digits (names and labels hold no
\* whitespace and no underscore)
IntParses(s) ==
    LET body == IF Len(s) > 0 /\ s[1] = "-" THEN Tail(s) ELSE s
    IN  isdigit(body)

RECURSIVE DigitsValue(_)
DigitsValue(s) ==
    IF Len(s) = 0 THEN 0
    ELSE 10 * DigitsValue(SubSeq(s, 1, Len(s) - 1)) + DigitValue(s[Len(s)])

int(s) == IF s[1] = "-" THEN 0 - DigitsValue(Tail(s)) ELSE DigitsValue(s)

\* str.rfind("."): the last index of a dot, 0 when there is none (1-based)
RFindDot(name) ==
    IF \E i \in 1..Len(name) : name[i] = "."
    THEN CHOOSE i \in 1..Len(name) :
            name[i] = "." /\ \A j \in (i + 1)..Len(name) : name[j] # "."
    ELSE 0

\* PurePath(name).suffix: from the last dot on, the dot included; empty when
\* the dot is the first or the last character or there is none
suffix(name) ==
    LET i == RFindDot(name)
    IN  IF 1 < i /\ i < Len(name) THEN SubSeq(name, i, Len(name)) ELSE <<>>

\* str.lstrip(chars) for a one-character set
RECURSIVE lstrip(_, _)
lstrip(s, c) == IF Len(s) > 0 /\ s[1] = c THEN lstrip(Tail(s), c) ELSE s

secret_version(sec) ==
    LET lbl == Get(sec.labels, "version", <<>>)
        tail == lstrip(suffix(sec.name), "v")
    IN  IF isdigit(lbl) THEN int(lbl)
        ELSE IF IntParses(tail) THEN int(tail)
        ELSE 0

-----------------------------------------------------------------------------
(* Exception classes.  In kubernetes.dynamic.exceptions NotFoundError,
   ForbiddenError and UnauthorizedError are HTTP errors and subclasses of
   DynamicApiError; ResourceNotFoundError (no such kind in the discovered
   APIs) and a transport failure (ConnectionError) are not.  gzip.BadGzipFile
   is an OSError; zlib.error, json.JSONDecodeError, UnicodeDecodeError and
   binascii.Error are not. *)

DynamicApiErrors == {"NotFoundError", "ForbiddenError", "UnauthorizedError"}

IsInstance(e, class) ==
    \/ e = class
    \/ class = "DynamicApiError" /\ e \in DynamicApiErrors
    \/ class = "OSError" /\ e = "BadGzipFile"
    \/ class = "Exception"

-----------------------------------------------------------------------------
(* find_release_secret, lines 39-72 *)

\* max(candidates, key=secret_version), line 67: the running best is replaced
\* only by an item whose key is strictly larger
RECURSIVE MaxFrom(_, _, _)
MaxFrom(items, i, best) ==
    IF i > Len(items) THEN best
    ELSE IF secret_version(items[i]) > secret_version(best)
         THEN MaxFrom(items, i + 1, items[i])
         ELSE MaxFrom(items, i + 1, best)

\* a max that keeps the last of several largest items
RECURSIVE MaxFromLast(_, _, _)
MaxFromLast(items, i, best) ==
    IF i > Len(items) THEN best
    ELSE IF secret_version(items[i]) >= secret_version(best)
         THEN MaxFromLast(items, i + 1, items[i])
         ELSE MaxFromLast(items, i + 1, best)

MaxByVersionLast(items) == MaxFromLast(items, 2, items[1])

MaxByVersion(items) == MaxFrom(items, 2, items[1])

\* the loop of lines 69-72
RECURSIVE FirstWithVersion(_, _, _)
FirstWithVersion(items, i, n) ==
    IF i > Len(items) THEN None
    ELSE IF secret_version(items[i]) = n THEN Obj(items[i])
    ELSE FirstWithVersion(items, i + 1, n)

\* find_release_secret testing "if not revision" instead of "is None"
find_release_secret_falsy(discovery, listing, rev) ==
    IF Raised(discovery) THEN discovery
    ELSE IF Raised(listing)
         THEN IF IsInstance(listing[2], "NotFoundError")
              THEN Return(None)
              ELSE listing
    ELSE IF Len(listing[2]) = 0 THEN Return(None)
    ELSE IF rev = None \/ rev = PyInt(0) THEN Return(Obj(MaxByVersion(listing[2])))
    ELSE Return(FirstWithVersion(listing[2], 1, rev[2]))

\* discovery: the outcome of dyn_client.resources.get(kind="Secret"), line 46
\* listing: the outcome of v1_secrets.get(...), line 50; its value is .items
find_release_secret(discovery, listing, rev) ==
    IF Raised(discovery) THEN discovery
    ELSE IF Raised(listing)
         THEN IF IsInstance(listing[2], "NotFoundError")
              THEN Return(None)
              ELSE listing
    ELSE IF Len(listing[2]) = 0 THEN Return(None)
    ELSE IF rev = None THEN Return(Obj(MaxByVersion(listing[2])))
    ELSE Return(FirstWithVersion(listing[2], 1, rev[2]))

-----------------------------------------------------------------------------
(* Byte strings of the decoder.  A byte string is described by how it was
   built, which is what decides every test the decoder makes on it:
     <<"json", v>>          the JSON text of the value v
     <<"b64", x>>           the base64 text of the bytes x
     <<"gzip", x>>          a gzip stream of the bytes x
     <<"corrupt-gzip", e>>  bytes that start with 1f 8b and on which
                            gzip.decompress raises e
     <<"text">>             ASCII text that is neither JSON nor base64
     <<"binary">>           bytes that are not UTF-8 and do not start 1f 8b
     <<"empty">>            b""                                            *)

Json(v) == <<"json", v>>
B64(x) == <<"b64", x>>
Gzip(x) == <<"gzip", x>>
CorruptGzip(e) == <<"corrupt-gzip", e>>

\* data.startswith(b"\x1f\x8b"), line 76
StartsWithGzipMagic(data) == data[1] \in {"gzip", "corrupt-gzip"}

\* gzip.decompress(data), for data that starts with the magic bytes
gzip_decompress(data) ==
    IF data[1] = "gzip" THEN Return(data[2]) ELSE Raise(data[2])

\* base64.b64decode(s).  It is applied to the secret's data, which the API
\* serves base64-encoded, and to text json.loads rejected as JSON.
b64decode(s) ==
    CASE s[1] = "b64" -> Return(s[2])
      [] s[1] = "empty" -> Return(s)
      [] s[1] = "text" -> Raise("binascii.Error")

\* json.loads(raw): bytes are decoded as UTF-8 first; 1f 8b is not UTF-8
json_loads(data) ==
    CASE data[1] = "json" -> Return(data[2])
      [] data[1] \in {"b64", "text", "empty"} -> Raise("JSONDecodeError")
      [] data[1] \in {"gzip", "corrupt-gzip", "binary"} -> Raise("UnicodeDecodeError")

\* a _try_decompress that never decompresses
_try_decompress_never(data) == Return(data)

\* lines 75-81
_try_decompress(data) ==
    IF StartsWithGzipMagic(data)
    THEN LET o == gzip_decompress(data)
         IN  IF ~Raised(o) THEN o
             ELSE IF \/ IsInstance(o[2], "OSError")
                     \/ IsInstance(o[2], "EOFError")
                     \/ IsInstance(o[2], "BadGzipFile")
                  THEN Return(data)
                  ELSE o
    ELSE Return(data)

\* _try_decompress(base64.b64decode(x)), lines 86 and 91
Unwrap(x) ==
    LET b == b64decode(x)
    IN  IF Raised(b) THEN b ELSE _try_decompress(b[2])

-----------------------------------------------------------------------------
(* manifest_objects, lines 97-108.  A manifest text is described by the
   stream of documents yaml.safe_load_all reads from it, in order; the empty
   text is the empty stream.  A document is None (an empty document),
   <<"other">> (a scalar or a list), <<"dict", d>>, or <<"malformed">>: text
   at which the YAML parser raises. *)

\* Python truth of None and of a str
Truthy(v) == v # None /\ v # Str("")

\* the body of the for loop for one document: the tuples it yields, or the
\* exception it raises
DocumentObjects(doc, default_ns) ==
    IF doc[1] = "malformed" THEN Raise("YAMLError")
    ELSE IF doc[1] # "dict" THEN Return(<<>>)
    ELSE LET api_ver == Get(doc[2], "apiVersion", None)
             kind == Get(doc[2], "kind", None)
             meta == Get(doc[2], "metadata", Dict({}))
         IN  IF meta[1] # "dict" THEN Raise("AttributeError")
             ELSE LET name == Get(meta[2], "name", None)
                      nsv == Get(meta[2], "namespace", None)
                      ns == IF Truthy(nsv) THEN nsv[2] ELSE default_ns
                  IN  IF Truthy(api_ver) /\ Truthy(kind) /\ Truthy(name)
                      THEN Return(<<(<<api_ver[2], kind[2], ns, name[2]>>)>>)
                      ELSE Return(<<>>)

RECURSIVE ObjectsFrom(_, _, _, _)
ObjectsFrom(docs, i, default_ns, yielded) ==
    IF i > Len(docs) THEN Return(yielded)
    ELSE LET o == DocumentObjects(docs[i], default_ns)
         IN  IF Raised(o) THEN o
             ELSE ObjectsFrom(docs, i + 1, default_ns, yielded \o o[2])

\* the generator, run to its end (main hands it to sorted())
manifest_objects(manifest_yaml, default_ns) ==
    ObjectsFrom(manifest_yaml, 1, default_ns, <<>>)

\* the order of str: by code point.  Collation lists the strings of the
\* model's identities in that order.
Collation == <<"", "ConfigMap", "cm1", "cm2", "other", "rel-ns", "v1">>

Rank(str) == CHOOSE i \in 1..Len(Collation) : Collation[i] = str

\* the order of tuples of str: lexicographic
RECURSIVE TupleLess(_, _, _)
TupleLess(a, b, i) ==
    IF i > Len(a) THEN FALSE
    ELSE IF Rank(a[i]) < Rank(b[i]) THEN TRUE
    ELSE IF Rank(a[i]) > Rank(b[i]) THEN FALSE
    ELSE TupleLess(a, b, i + 1)

\* sorted(): stable, ascending
RECURSIVE Insert(_, _)
Insert(sortedSeq, x) ==
    IF Len(sortedSeq) = 0 THEN <<x>>
    ELSE IF TupleLess(x, Head(sortedSeq), 1) THEN <<x>> \o sortedSeq
    ELSE <<Head(sortedSeq)>> \o Insert(Tail(sortedSeq), x)

RECURSIVE sorted(_)
sorted(s) ==
    IF Len(s) = 0 THEN <<>>
    ELSE Insert(sorted(SubSeq(s, 1, Len(s) - 1)), s[Len(s)])

-----------------------------------------------------------------------------
(* object_exists, lines 111-131 *)

\* lookup: the outcome of dyn_client.resources.get(api_version, kind): the
\*   resource, as <<"return", namespaced>>, or an exception
\* fetch: the outcome of res.get(name[, namespace])
object_exists(lookup, fetch) ==
    IF Raised(lookup)
    THEN IF \/ IsInstance(lookup[2], "DynamicApiError")
            \/ IsInstance(lookup[2], "NotFoundError")
         THEN Return(FALSE)
         ELSE lookup
    ELSE IF ~Raised(fetch) THEN Return(TRUE)
    ELSE IF IsInstance(fetch[2], "NotFoundError") THEN Return(FALSE)
    ELSE fetch

-----------------------------------------------------------------------------
(* main, lines 138-183: the parts the report is made of *)

\* line 154
rev_msg(rev) == IF rev # None THEN <<" revision=", rev[2]>> ELSE <<" (latest)">>

\* "if not manifest" instead of "if manifest is None"
ManifestFalsy(manifest) == manifest = None \/ manifest = Yaml(<<>>)

\* line 162
ManifestMissing(manifest) == manifest = None

\* line 175
status_txt(live) == IF live THEN "exists" ELSE "absent"

\* exists_any overwritten instead of accumulated
ExistsAnyLast(any, live) == live

\* line 176
ExistsAnyNext(any, live) == any \/ live

-----------------------------------------------------------------------------
(* The inputs: what the record store, the secret and the cluster can hold *)

\* args.namespace
ReleaseNamespace == "rel-ns"

\* secrets for secret_version: every name and every version label over a
\* small alphabet, and no version label at all
NameChars == {"r", ".", "v", "-", "7"}
LabelChars == {"5", "7", "x"}
\* a name starts and ends with a letter or a digit
AllNames ==
    {n \in SeqsUpTo(NameChars, MaxNameLen) :
        Len(n) > 0 /\ n[1] \notin {".", "-"} /\ n[Len(n)] \notin {".", "-"}}
AllLabels == {{}} \cup {{<<"version", l>>} : l \in SeqsUpTo(LabelChars, MaxLabelLen)}
AllSecrets == [name : AllNames, labels : AllLabels]

\* secrets of the store main() queries; names are unique in a namespace
StoreNames == {<<"r", ".", "v", "1">>, <<"r", ".", "v", "7">>, <<"r">>, <<"s">>}
StoreLabels == {{}, {<<"version", <<"1">>>>}, {<<"version", <<"2">>>>}}
StoreSecrets == [name : StoreNames, labels : StoreLabels]
ItemLists ==
    {l \in SeqsUpTo(StoreSecrets, MaxCandidates) :
        \A i, j \in 1..Len(l) : i # j => l[i].name # l[j].name}
Revisions == {None} \cup {PyInt(n) : n \in {0, 1, 2, 7}}
Discoveries == {Return(TRUE), Raise("ForbiddenError"), Raise("ConnectionError")}
Listings ==
    {Return(l) : l \in ItemLists}
    \cup {Raise(e) : e \in {"NotFoundError", "ForbiddenError", "ConnectionError"}}

\* documents
Metadata(name, ns) == Dict({<<"name", Str(name)>>} \cup ns)
ApiVersionFields == {{}, {<<"apiVersion", Str("v1")>>}}
KindFields == {{}, {<<"kind", Str("")>>}, {<<"kind", Str("ConfigMap")>>}}
MetadataFields ==
    {{}} \cup
    {{<<"metadata", m>>} :
        m \in {None, Dict({}),
               Dict({<<"namespace", Str("other")>>}),
               Metadata("cm1", {}),
               Metadata("cm1", {<<"namespace", Str("")>>}),
               Metadata("cm2", {<<"namespace", Str("other")>>})}}
AllDocs ==
    {Dict(a \cup k \cup m) : a \in ApiVersionFields, k \in KindFields, m \in MetadataFields}
    \cup {None, <<"other">>, <<"malformed">>}
AllManifests == SeqsUpTo(AllDocs, MaxDocs)

\* the manifests of stored releases
Doc(kindField, meta) ==
    Dict({<<"apiVersion", Str("v1")>>, <<"metadata", meta>>} \cup kindField)
StoredDocs ==
    {Doc({<<"kind", Str("ConfigMap")>>}, Metadata("cm1", {})),
     Doc({<<"kind", Str("ConfigMap")>>}, Metadata("cm2", {<<"namespace", Str("other")>>})),
     Doc({}, Metadata("cm1", {})),
     Doc({<<"kind", Str("ConfigMap")>>}, None)}
StoredManifests == SeqsUpTo(StoredDocs, MaxDeclared)

\* JSON values of a payload: a release record, or something that is no mapping
ReleaseValues ==
    {Dict(v \cup m) :
        v \in {{}, {<<"version", PyInt(1)>>}},
        m \in {{}, {<<"manifest", None>>}}
              \cup {{<<"manifest", Yaml(t)>>} : t \in StoredManifests}}
    \cup {<<"other">>}

\* byte strings: a plain one, wrapped in at most n encodings
PlainBytes ==
    {Json(v) : v \in ReleaseValues}
    \cup {CorruptGzip(e) : e \in {"BadGzipFile", "EOFError", "zlib.error"}}
    \cup {<<"text">>, <<"binary">>, <<"empty">>}

RECURSIVE Wrapped(_, _)
Wrapped(S, n) ==
    IF n = 0 THEN S
    ELSE LET inner == Wrapped(S, n - 1)
         IN  inner \cup {B64(x) : x \in inner} \cup {Gzip(x) : x \in inner}

\* secret.data["release"] as the API serves it: base64 of the stored bytes
AllPayloads == {B64(x) : x \in Wrapped(PlainBytes, MaxWrap)}
StoredPayloads == {B64(x) : x \in Wrapped(PlainBytes, MaxStoredWrap)}

\* the cluster's answers to one object_exists call
Lookups ==
    {Return(TRUE), Return(FALSE)}
    \cup {Raise(e) : e \in {"ResourceNotFoundError", "NotFoundError",
                            "ForbiddenError", "ConnectionError"}}
Fetches == {Return(TRUE)} \cup {Raise(e) : e \in {"NotFoundError", "ForbiddenError"}}
NotAsked == <<"not-asked">>

-----------------------------------------------------------------------------
(* main() *)

Idle ==
    /\ candidates = <<>>
    /\ secret = Unset
    /\ raw = Unset
    /\ raw2 = Unset
    /\ release = Unset
    /\ todo = <<>>
    /\ reply = <<>>
    /\ lives = <<>>
    /\ exists_any = FALSE
    /\ out = <<>>
    /\ err = ""
    /\ ret = Unset

Init ==
    /\ pc = "find"
    /\ revision \in Revisions
    /\ encoded = Unset
    /\ arg = Unset
    /\ Idle

\* an exception leaves main(): the run ends with a traceback
Propagate(e) == pc' = "raised" /\ err' = e

\* line 152, with find_release_secret, lines 39-72
FindReleaseSecret ==
    /\ pc = "find"
    /\ \E discovery \in Discoveries, listing \in Listings :
          LET asked == IF Raised(discovery) THEN NotAsked
                       ELSE IF Raised(listing) THEN listing
                       ELSE Return("items")
              o == find_release_secret(discovery, listing, revision)
          IN  /\ reply' = <<discovery, asked>>
              /\ candidates' = IF Raised(discovery) \/ Raised(listing)
                               THEN <<>> ELSE listing[2]
              /\ IF Raised(o)
                 THEN Propagate(o[2]) /\ UNCHANGED secret
                 ELSE pc' = "found" /\ secret' = o[2] /\ UNCHANGED err
    /\ UNCHANGED <<revision, encoded, raw, raw2, release, todo, lives,
                   exists_any, out, arg, ret>>

\* lines 153-157: sys.exit with the not-found message
ExitNotFound ==
    /\ pc = "found"
    /\ secret = None
    /\ out' = Append(out, <<"not-found", rev_msg(revision)>>)
    /\ pc' = "exit"
    /\ err' = "SystemExit"
    /\ UNCHANGED <<revision, candidates, secret, encoded, raw, raw2, release,
                   todo, reply, lives, exists_any, arg, ret>>

\* line 153, the secret is there: find_release_secret has returned and its
\* variables are gone
SecretFound ==
    /\ pc = "found"
    /\ secret # None
    /\ pc' = "read"
    /\ candidates' = <<>>
    /\ reply' = <<>>
    /\ UNCHANGED <<revision, secret, encoded, raw, raw2, release, todo, lives,
                   exists_any, out, err, arg, ret>>

\* line 159: secret.data["release"] is read and decode_release_payload entered
ReadPayload ==
    /\ pc = "read"
    /\ \E data \in StoredPayloads : encoded' = data
    /\ pc' = "unwrap"
    /\ UNCHANGED <<revision, candidates, secret, raw, raw2, release, todo,
                   reply, lives, exists_any, out, err, arg, ret>>

\* line 86
UnwrapFirst ==
    /\ pc = "unwrap"
    /\ LET o == Unwrap(encoded)
       IN  IF Raised(o)
           THEN Propagate(o[2]) /\ UNCHANGED raw
           ELSE pc' = "parse" /\ raw' = o[2] /\ UNCHANGED err
    /\ UNCHANGED <<revision, candidates, secret, encoded, raw2, release, todo,
                   reply, lives, exists_any, out, arg, ret>>

\* lines 87-89
ParseFirst ==
    /\ pc = "parse"
    /\ LET o == json_loads(raw)
       IN  IF ~Raised(o)
           THEN pc' = "decoded" /\ release' = o[2] /\ UNCHANGED err
           ELSE IF IsInstance(o[2], "JSONDecodeError")
                THEN pc' = "unwrap2" /\ UNCHANGED <<release, err>>
                ELSE Propagate(o[2]) /\ UNCHANGED release
    /\ UNCHANGED <<revision, candidates, secret, encoded, raw, raw2, todo,
                   reply, lives, exists_any, out, arg, ret>>

\* line 91, inside try ... except Exception (lines 90-94)
UnwrapSecond ==
    /\ pc = "unwrap2"
    /\ LET o == Unwrap(raw)
       IN  IF Raised(o)
           THEN IF IsInstance(o[2], "Exception")
                THEN Propagate("RuntimeError") /\ UNCHANGED raw2
                ELSE Propagate(o[2]) /\ UNCHANGED raw2
           ELSE pc' = "parse2" /\ raw2' = o[2] /\ UNCHANGED err
    /\ UNCHANGED <<revision, candidates, secret, encoded, raw, release, todo,
                   reply, lives, exists_any, out, arg, ret>>

\* line 92, inside try ... except Exception (lines 90-94)
ParseSecond ==
    /\ pc = "parse2"
    /\ LET o == json_loads(raw2)
       IN  IF ~Raised(o)
           THEN pc' = "decoded" /\ release' = o[2] /\ UNCHANGED err
           ELSE IF IsInstance(o[2], "Exception")
                THEN Propagate("RuntimeError") /\ UNCHANGED release
                ELSE Propagate(o[2]) /\ UNCHANGED release
    /\ UNCHANGED <<revision, candidates, secret, encoded, raw, raw2, todo,
                   reply, lives, exists_any, out, arg, ret>>

\* lines 160-169: the release's fields are read; the header is printed, or
\* the run exits for want of a manifest.  decode_release_payload has returned:
\* its variables are gone.
ReadRelease ==
    /\ pc = "decoded"
    /\ IF release[1] # "dict"
       THEN Propagate("AttributeError") /\ UNCHANGED out
       ELSE LET shown == Get(release[2], "version", Str("?"))
                manifest == Get(release[2], "manifest", None)
            IN  IF ManifestMissing(manifest)
                THEN /\ out' = Append(out, <<"missing-manifest">>)
                     /\ pc' = "exit"
                     /\ err' = "SystemExit"
                ELSE /\ out' = Append(out, <<"header", shown>>)
                     /\ pc' = "extract"
                     /\ UNCHANGED err
    /\ encoded' = Unset
    /\ raw' = Unset
    /\ raw2' = Unset
    /\ UNCHANGED <<revision, candidates, secret, release, todo, reply, lives,
                   exists_any, arg, ret>>

\* lines 171-172: exists_any = False; sorted(manifest_objects(...)) is evaluated
ExtractObjects ==
    /\ pc = "extract"
    /\ LET manifest == Get(release[2], "manifest", None)
           o == manifest_objects(manifest[2], ReleaseNamespace)
       IN  IF Raised(o)
           THEN Propagate(o[2]) /\ UNCHANGED todo
           ELSE pc' = "loop" /\ todo' = sorted(o[2]) /\ UNCHANGED err
    /\ exists_any' = FALSE
    /\ UNCHANGED <<revision, candidates, secret, encoded, raw, raw2, release,
                   reply, lives, out, arg, ret>>

\* lines 172-178: one turn of the loop, with object_exists, lines 111-131
CheckObject ==
    /\ pc = "loop"
    /\ todo # <<>>
    /\ \E lookup \in Lookups, fetch \in Fetches :
          LET asked == IF Raised(lookup) THEN NotAsked ELSE fetch
              o == object_exists(lookup, fetch)
          IN  /\ reply' = <<lookup, asked>>
              /\ IF Raised(o)
                 THEN /\ Propagate(o[2])
                      /\ UNCHANGED <<todo, lives, exists_any, out>>
                 ELSE /\ lives' = Append(lives, o[2])
                      /\ exists_any' = ExistsAnyNext(exists_any, o[2])
                      /\ out' = Append(out, <<"resource", Head(todo), status_txt(o[2])>>)
                      /\ todo' = Tail(todo)
                      /\ UNCHANGED <<pc, err>>
    /\ UNCHANGED <<revision, candidates, secret, encoded, raw, raw2, release,
                   arg, ret>>

\* lines 180-183: the loop is over; the warning is printed, or nothing
Finish ==
    /\ pc = "loop"
    /\ todo = <<>>
    /\ out' = IF ~exists_any THEN Append(out, <<"warning">>) ELSE out
    /\ pc' = "done"
    /\ UNCHANGED <<revision, candidates, secret, encoded, raw, raw2, release,
                   todo, reply, lives, exists_any, err, arg, ret>>

Next ==
    \/ FindReleaseSecret
    \/ ExitNotFound
    \/ SecretFound
    \/ ReadPayload
    \/ UnwrapFirst
    \/ ParseFirst
    \/ UnwrapSecond
    \/ ParseSecond
    \/ ReadRelease
    \/ ExtractObjects
    \/ CheckObject
    \/ Finish

Spec == Init /\ [][Next]_vars

-----------------------------------------------------------------------------
(* decode_release_payload on its own, applied to every payload *)

InitDecode ==
    /\ pc = "unwrap"
    /\ revision = None
    /\ encoded \in AllPayloads
    /\ arg = Unset
    /\ Idle

NextDecode ==
    \/ UnwrapFirst
    \/ ParseFirst
    \/ UnwrapSecond
    \/ ParseSecond

SpecDecode == InitDecode /\ [][NextDecode]_vars

-----------------------------------------------------------------------------
(* secret_version and manifest_objects on their own *)

InitVersion ==
    /\ pc = "call"
    /\ revision = None
    /\ encoded = Unset
    /\ arg \in AllSecrets
    /\ Idle

CallSecretVersion ==
    /\ pc = "call"
    /\ ret' = PyInt(secret_version(arg))
    /\ pc' = "returned"
    /\ UNCHANGED <<revision, candidates, secret, encoded, raw, raw2, release,
                   todo, reply, lives, exists_any, out, err, arg>>

SpecVersion == InitVersion /\ [][CallSecretVersion]_vars

InitManifest ==
    /\ pc = "call"
    /\ revision = None
    /\ encoded = Unset
    /\ arg \in AllManifests
    /\ Idle

CallManifestObjects ==
    /\ pc = "call"
    /\ ret' = manifest_objects(arg, ReleaseNamespace)
    /\ pc' = "returned"
    /\ UNCHANGED <<revision, candidates, secret, encoded, raw, raw2, release,
                   todo, reply, lives, exists_any, out, err, arg>>

SpecManifest == InitManifest /\ [][CallManifestObjects]_vars

-----------------------------------------------------------------------------
(* Properties *)

\* the name ends in a dot, "v" and digits, after at least one character
DotVDigitsAt(name, k) ==
    /\ 1 < k /\ k + 2 <= Len(name)
    /\ name[k] = "." /\ name[k + 1] = "v"
    /\ isdigit(SubSeq(name, k + 2, Len(name)))

\* C1: secret_version resolves a record with a digit-string version label to
\* that integer whatever its name; a record without a numeric label whose name
\* ends in ".v<digits>" to those digits; a record with neither to 0.
C1_RevisionResolution ==
    pc = "returned" =>
        LET lbl == Get(arg.labels, "version", <<>>)
            name == arg.name
        IN  /\ isdigit(lbl) => ret = PyInt(DigitsValue(lbl))
            /\ \A k \in 1..Len(name) :
                  ~isdigit(lbl) /\ DotVDigitsAt(name, k)
                      => ret = PyInt(DigitsValue(SubSeq(name, k + 2, Len(name))))
            /\ (~isdigit(lbl) /\ ~\E k \in 1..Len(name) : DotVDigitsAt(name, k))
                  => ret = PyInt(0)

\* C2: with no revision requested and at least one candidate,
\* find_release_secret raises nothing and returns the first candidate, in list
\* order, whose resolved revision is the largest of all candidates.
C2_LatestIsFirstMaximum ==
    (revision = None /\ candidates # <<>>) =>
        /\ pc = "found"
        /\ \E i \in 1..Len(candidates) :
              /\ secret = Obj(candidates[i])
              /\ \A j \in 1..Len(candidates) :
                    secret_version(candidates[j]) <= secret_version(candidates[i])
              /\ \A j \in 1..(i - 1) :
                    secret_version(candidates[j]) < secret_version(candidates[i])

\* reached: two candidates tie at the largest revision, positive, a third
\* resolves to 0, and the first of the two is returned
C2_Witness ==
    /\ pc = "found" /\ revision = None
    /\ \E i, j, k \in 1..Len(candidates) :
          /\ i < j
          /\ secret_version(candidates[i]) = 2
          /\ secret_version(candidates[j]) = 2
          /\ secret_version(candidates[k]) = 0
          /\ secret = Obj(candidates[i])

\* C3: with revision R requested (0 included), find_release_secret returns a
\* candidate whose resolved revision is exactly R when there is one, the first
\* in list order, and None otherwise; with no candidate at all it returns None.
C3_ExactRevisionOrNotFound ==
    pc = "found" =>
        /\ candidates = <<>> => secret = None
        /\ revision # None =>
              LET hits == {i \in 1..Len(candidates) :
                              secret_version(candidates[i]) = revision[2]}
              IN  IF hits = {}
                  THEN secret = None
                  ELSE \E i \in hits :
                          /\ secret = Obj(candidates[i])
                          /\ \A j \in hits : i <= j

\* reached: revision 0 is requested and found among candidates of other
\* revisions
C3_Witness ==
    /\ pc = "found" /\ revision = PyInt(0)
    /\ secret # None
    /\ \E i, j \in 1..Len(candidates) :
          /\ secret_version(candidates[i]) = 2
          /\ secret = Obj(candidates[j])
          /\ secret_version(candidates[j]) = 0

\* C4: base64-decoded bytes that start with the gzip magic and fail to
\* decompress are never handed to the parse step as they are, and a payload
\* holding them under one base64 ends in the decode error.
C4_CorruptGzipIsFatal ==
    /\ pc = "parse" => ~(raw[1] = "corrupt-gzip" /\ encoded = B64(raw))
    /\ pc = "parse2" => ~(raw2[1] = "corrupt-gzip" /\ raw = B64(raw2))
    /\ (pc = "raised" /\ encoded[2][1] = "corrupt-gzip") => err = "RuntimeError"

\* C5: a record wrapped twice decodes to the record; a payload that is no record
\* after the second round ends in RuntimeError, and so does every payload that
\* cannot be decoded.
C5_TwoLevelBound ==
    /\ \A v \in ReleaseValues :
          encoded \in {B64(B64(Json(v))), B64(Gzip(B64(Gzip(Json(v)))))}
              => /\ pc # "raised"
                 /\ pc = "decoded" => release = v
    /\ pc = "raised" => err = "RuntimeError"

\* C6: base64(json(record)) and base64(gzip(json(record))) both decode to the
\* record, with its version and its manifest.
C6_RoundTrip ==
    \A v \in ReleaseValues :
        encoded \in {B64(Json(v)), B64(Gzip(Json(v)))}
            => /\ pc \in {"unwrap", "parse", "decoded"}
               /\ pc = "decoded" => release = v

\* reached: a compressed record with a version and a manifest of two documents
\* has been decoded
C6_Witness ==
    /\ pc = "decoded"
    /\ encoded[2][1] = "gzip"
    /\ release[1] = "dict"
    /\ Get(release[2], "version", None) = PyInt(1)
    /\ Get(release[2], "manifest", None)[1] = "yaml"
    /\ Len(Get(release[2], "manifest", None)[2]) = 2

\* what C7 expects of one document
ValidDocument(doc) ==
    /\ doc[1] = "dict"
    /\ Truthy(Get(doc[2], "apiVersion", None))
    /\ Truthy(Get(doc[2], "kind", None))
    /\ Get(doc[2], "metadata", None)[1] = "dict"
    /\ Truthy(Get(Get(doc[2], "metadata", None)[2], "name", None))

ExpectedIdentity(doc) ==
    LET meta == Get(doc[2], "metadata", None)[2]
        nsv == Get(meta, "namespace", None)
    IN  <<Get(doc[2], "apiVersion", None)[2],
          Get(doc[2], "kind", None)[2],
          IF Truthy(nsv) THEN nsv[2] ELSE ReleaseNamespace,
          Get(meta, "name", None)[2]>>

RECURSIVE ExpectedIdentities(_)
ExpectedIdentities(docs) ==
    IF Len(docs) = 0 THEN <<>>
    ELSE (IF ValidDocument(Head(docs)) THEN <<ExpectedIdentity(Head(docs))>> ELSE <<>>)
         \o ExpectedIdentities(Tail(docs))

\* C7: manifest_objects yields exactly one identity for each document that has
\* apiVersion, kind and metadata.name, and skips every other document without
\* raising and without losing the identities of the other documents.
C7_ExtractionSkipsSilently ==
    pc = "returned" => ret = Return(ExpectedIdentities(arg))

\* the manifest field of the decoded release
ReleaseManifest == Get(release[2], "manifest", None)

\* C8 as stated: a release without a manifest field ends in the
\* missing-manifest error before anything is printed or checked, and a run that
\* goes on past the decode has a non-empty manifest text.
C8_NonEmptyManifestOrFailure ==
    release[1] = "dict" =>
        /\ (ReleaseManifest = None /\ pc # "decoded")
              => pc = "exit" /\ out = <<(<<"missing-manifest">>)>> /\ lives = <<>>
        /\ pc \in {"extract", "loop", "done"}
              => ReleaseManifest[1] = "yaml" /\ ReleaseManifest[2] # <<>>

\* C8 amended: the missing-manifest error ends the run exactly when the manifest
\* field is absent or null, before anything is printed or checked; a manifest
\* that is present and empty is reported as a release with no resources.
C8_MissingManifestIsDistinct ==
    (release[1] = "dict" /\ pc # "decoded") =>
        /\ ReleaseManifest = None
              => /\ pc = "exit" /\ err = "SystemExit"
                 /\ out = <<(<<"missing-manifest">>)>>
                 /\ lives = <<>>
        /\ ReleaseManifest # None
              => /\ pc # "exit"
                 /\ out # <<>> /\ out[1][1] = "header"
        /\ (ReleaseManifest = Yaml(<<>>) /\ pc = "done")
              => /\ lives = <<>>
                 /\ Len(out) = 2 /\ out[2] = <<"warning">>

\* reached: the run has ended on a decoded release that has no manifest field
C8_Witness ==
    /\ pc = "exit"
    /\ release[1] = "dict"
    /\ ReleaseManifest = None
    /\ out = <<(<<"missing-manifest">>)>>

\* an authorization or transport failure
IsFailure(o) ==
    Raised(o) /\ o[2] \in {"ForbiddenError", "UnauthorizedError", "ConnectionError"}

\* C9: find_release_secret never answers None, and object_exists never answers
\* False, when the store or the cluster answered with an authorization or
\* transport failure.
C9_FailuresPropagate ==
    /\ (pc = "found" /\ secret = None)
          => ~IsFailure(reply[1]) /\ ~IsFailure(reply[2])
    /\ (pc \in {"loop", "done"} /\ lives # <<>> /\ ~lives[Len(lives)])
          => ~IsFailure(reply[1]) /\ ~IsFailure(reply[2])

\* C10: after the loop the warning is printed exactly when every live check
\* returned False; each identity's line says "exists" exactly when its own
\* check returned True; a failed resolution prints one not-found message, whose
\* text names the revision exactly when one was requested, and checks nothing.
C10_Report ==
    /\ pc = "done" =>
          ((\E i \in 1..Len(out) : out[i] = <<"warning">>)
              <=> \A i \in 1..Len(lives) : ~lives[i])
    /\ pc # "done" => \A i \in 1..Len(out) : out[i] # <<"warning">>
    /\ pc \in {"loop", "done"} =>
          \A i \in 1..Len(lives) :
              /\ out[i + 1][1] = "resource"
              /\ out[i + 1][3] = "exists" <=> lives[i]
              /\ out[i + 1][3] = "absent" <=> ~lives[i]
    /\ (pc = "exit" /\ secret = None) =>
          /\ lives = <<>>
          /\ Len(out) = 1 /\ out[1][1] = "not-found"
          /\ revision = None => out[1][2] = <<" (latest)">>
          /\ revision # None => out[1][2] = <<" revision=", revision[2]>>

\* reached: three declared objects, the first alive and the others not, and the
\* report is finished without the warning
C10_Witness ==
    /\ pc = "done"
    /\ lives = <<TRUE, FALSE, FALSE>>
    /\ \A i \in 1..Len(out) : out[i] # <<"warning">>

====
